---- MODULE Spec2Model ----
(***************************************************************************)
(* Verification model of the Elephas AI detection engine                   *)
(* (api/enhanced_routes.py, core/enhanced_scorer.py,                       *)
(* core/advanced_features.py): the lazily loaded classifier and its        *)
(* AI_COMPONENTS table, the /scan, /scan/bulk, /scan/enhanced and          *)
(* /debug/force-init handlers, and the scoring they perform.               *)
(*                                                                         *)
(* Scores are exact fixed-point numbers: ONE stands for 1.0, so 0.2 is     *)
(* 20000 and round(x, 3) rounds to a multiple of 100.  Time is in seconds. *)
(* The server runs one uvicorn worker with one asyncio event loop          *)
(* (run_server.py:49); the handlers are coroutines without a suspension    *)
(* point, so each runs to completion on the loop, and the synchronous      *)
(* result_queue.get(timeout=120) of initialize_ai_components holds the     *)
(* loop while a load is awaited.                                           *)
(***************************************************************************)
EXTENDS Integers, Sequences, FiniteSets, TLC

----------------------------------------------------------------------------
(* Bounds of the model *)

MaxTime == 300          \* the clock stops advancing here
Tick == 150             \* seconds that pass between two requests
WorkerTime == 30        \* seconds a load worker that answers in time takes
MaxLoads == 2           \* load workers started in one run
MaxPending == 1         \* requests queued behind a blocked event loop
MaxBatch == 2           \* items of one bulk request
MaxKeys == 1            \* API keys generated in one run
MaxUsage == 1001        \* usage records kept for one key

(* Program constants *)

BACKOFF == 300          \* enhanced_routes.py:101
LOAD_TIMEOUT == 120     \* enhanced_routes.py:144
MIN_LENGTH == 3         \* enhanced_routes.py:680, 1127
BATCH_CAP == 100        \* enhanced_routes.py:1115
BASIC_DAILY == 1000             \* auth_system.py:76
BASIC_MONTHLY == 10000          \* auth_system.py:76
PRO_DAILY == 10000              \* auth_system.py:77
PRO_MONTHLY == 100000           \* auth_system.py:77
ENTERPRISE_DAILY == 100000      \* auth_system.py:78
ENTERPRISE_MONTHLY == 1000000   \* auth_system.py:78
ONE_YEAR == 31536000            \* auth_system.py:90, 365 days in seconds

ONE == 1000 * 100
None == "None"

----------------------------------------------------------------------------
(* Texts.  A text is known by its trimmed length and by which phrases of   *)
(* a small vocabulary occur in it; `in` of Python is substring search, so  *)
(* a text holding "click here" also holds "click".                         *)

Phrases == {"urgent", "verify", "suspended", "winner", "click here"}

Substrings == {<<"click", "click here">>}

Contains(text, kw) ==
    \E t \in text.terms : kw = t \/ <<kw, t>> \in Substrings

Count(text, keywords) == Cardinality({kw \in keywords : Contains(text, kw)})

(* The shape of a text: what the extractor measures besides keywords. *)
Shapes ==
    { [exclamations |-> 0, upper_pct |-> 0, sentences |-> 1, urls |-> 0,
       suspicious_urls |-> 0, contact |-> FALSE],
      [exclamations |-> 3, upper_pct |-> 40, sentences |-> 3, urls |-> 1,
       suspicious_urls |-> 1, contact |-> TRUE] }

PlainShape == CHOOSE s \in Shapes : s.urls = 0

ShortText == [len |-> 2, terms |-> {}, shape |-> PlainShape]

Texts ==
    {ShortText} \cup
    { [len |-> 40, terms |-> ts, shape |-> sh] : ts \in SUBSET Phrases, sh \in Shapes }

Senders == {"", "alice@example.com", "security@bank.com"}

NotANumber == 0 - 2     \* an hour that is no number: a string, null

(* Request metadata: a dict that may hold an hour of day; ScanRequest      *)
(* takes any JSON object.                                                  *)
Metadatas ==
    { [keys |-> {}, hour |-> 0], [keys |-> {"type"}, hour |-> 0],
      [keys |-> {"hour"}, hour |-> 3], [keys |-> {"hour"}, hour |-> 12],
      [keys |-> {"hour"}, hour |-> NotANumber] }

EmptyDict == [keys |-> {}, hour |-> 0]

Get(metadata, key, default) ==
    IF key \in metadata.keys THEN metadata.hour ELSE default

(* What BertScamClassifier.predict returns: (scam_prob, confidence), or an *)
(* exception raised by the tokenizer or the model.                         *)
Predictions ==
    { [p |-> 0, c |-> ONE], [p |-> 30000, c |-> 70000],
      [p |-> 85000, c |-> 85000], [p |-> ONE, c |-> ONE] }

Raises == [p |-> 0 - 1, c |-> 0 - 1]

----------------------------------------------------------------------------
(* core/advanced_features.py *)

scam_keywords ==
    [urgency  |-> {"urgent", "immediately", "expires", "limited time", "act now", "hurry"},
     money    |-> {"prize", "winner", "free", "cash", "reward", "million", "inheritance", "$"},
     trust    |-> {"government", "bank", "official", "verify", "confirm", "security"},
     action   |-> {"click", "download", "install", "call now", "reply", "forward"},
     threats  |-> {"suspended", "blocked", "fraud", "unauthorized", "violation", "penalty"},
     personal |-> {"ssn", "social security", "credit card", "password", "pin", "account number"}]

(* A feature value with its Python type: bool, int, or a float ratio kept  *)
(* in percent.                                                             *)
BoolV(b) == [t |-> "bool", b |-> b, n |-> 0]
IntV(n) == [t |-> "int", b |-> FALSE, n |-> n]
RatioV(pct) == [t |-> "ratio", b |-> FALSE, n |-> pct]

_extract_basic_features(text) ==
    [uppercase_ratio |-> RatioV(text.shape.upper_pct),
     exclamation_count |-> IntV(text.shape.exclamations)]

_extract_content_features(text) ==
    [urgency_keywords |-> IntV(Count(text, scam_keywords.urgency)),
     money_keywords |-> IntV(Count(text, scam_keywords.money)),
     trust_keywords |-> IntV(Count(text, scam_keywords.trust)),
     action_keywords |-> IntV(Count(text, scam_keywords.action)),
     threats_keywords |-> IntV(Count(text, scam_keywords.threats)),
     personal_keywords |-> IntV(Count(text, scam_keywords.personal)),
     has_urls |-> BoolV(text.shape.urls > 0),
     suspicious_url_count |-> IntV(text.shape.suspicious_urls),
     has_contact_info |-> BoolV(text.shape.contact)]

_extract_linguistic_features(text) ==
    [sentence_count |-> IntV(text.shape.sentences)]

_extract_sender_features(sender) ==
    IF sender = ""
    THEN [sender_analysis |-> IntV(0)]
    ELSE [sender_suspicious |-> BoolV(sender = "security@bank.com"),
          sender_is_email |-> BoolV(sender \in {"alice@example.com", "security@bank.com"})]

_extract_metadata_features(metadata) ==
    [time_of_day |-> IntV(Get(metadata, "hour", 12)),
     is_night_time |-> BoolV(Get(metadata, "hour", 12) < 6 \/ Get(metadata, "hour", 12) > 22)]

(* extract raises: with metadata given, line 136 compares the hour with 6, *)
(* which is a TypeError unless the hour is a number.                       *)
ExtractRaises(metadata) ==
    metadata.keys # {} /\ Get(metadata, "hour", 12) = NotANumber

(* dict.update: the later mapping wins on a shared key *)
Update(f, g) ==
    [k \in DOMAIN f \cup DOMAIN g |-> IF k \in DOMAIN g THEN g[k] ELSE f[k]]

extract(text, sender, metadata) ==
    LET f1 == _extract_basic_features(text)
        f2 == Update(f1, _extract_content_features(text))
        f3 == Update(f2, _extract_linguistic_features(text))
        f4 == Update(f3, _extract_sender_features(sender))
    IN  IF metadata.keys # {} THEN Update(f4, _extract_metadata_features(metadata)) ELSE f4

----------------------------------------------------------------------------
(* core/enhanced_scorer.py.  Weights are in hundredths. *)

_initialize_weights ==
    [personal_keywords |-> 80, threats_keywords |-> 70, urgency_keywords |-> 60,
     suspicious_url_count |-> 90, has_urls |-> 40,
     money_keywords |-> 50, action_keywords |-> 40, trust_keywords |-> 30,
     has_contact_info |-> 30,
     uppercase_ratio |-> 30, exclamation_count |-> 20, sender_suspicious |-> 60,
     is_night_time |-> 20,
     sender_is_email |-> 0 - 10, sentence_count |-> 0 - 5]

Min(a, b) == IF a < b THEN a ELSE b
Max(a, b) == IF a > b THEN a ELSE b

(* Python truthiness of a feature value *)
Truthy(v) == IF v.t = "bool" THEN v.b ELSE v.n # 0

(* weight * value, in units of 1/ONE: a bool counts in full, a number is   *)
(* divided by 10 and capped at 1 first.                                    *)
Contribution(weight, v) ==
    IF v.t = "bool" THEN (IF v.b THEN weight * 1000 ELSE 0)
    ELSE IF v.t = "int" THEN weight * Min(v.n, 10) * 100
    ELSE weight * Min(v.n, 1000)

RECURSIVE SumContributions(_, _)
SumContributions(names, features) ==
    IF names = {} THEN 0
    ELSE LET k == CHOOSE x \in names : TRUE
             c == IF k \in DOMAIN features /\ Truthy(features[k])
                  THEN Contribution(_initialize_weights[k], features[k])
                  ELSE 0
         IN  c + SumContributions(names \ {k}, features)

_calculate_rule_score(features) ==
    Min(SumContributions(DOMAIN _initialize_weights, features), ONE)

(* An ensemble that weighs the classifier and the rules alike. *)
Ensemble_equal_weights(bert_score, rule_score) ==
    Min(Max((5 * bert_score + 5 * rule_score) \div 10, 0), ONE)

(* final_score = min(max(0.7 * bert + 0.3 * rule, 0), 1) *)
Ensemble(bert_score, rule_score) ==
    Min(Max((7 * bert_score + 3 * rule_score) \div 10, 0), ONE)

(* EnhancedScamRiskScorer.score; prediction is what predict(text) yields *)
score(features, prediction) ==
    IF prediction = Raises
    THEN [raised |-> TRUE, final_score |-> 0, bert_score |-> 0,
          bert_confidence |-> 0, rule_score |-> 0]
    ELSE LET rule_score == _calculate_rule_score(features)
         IN  [raised |-> FALSE,
              final_score |-> Ensemble(prediction.p, rule_score),
              bert_score |-> prediction.p,
              bert_confidence |-> prediction.c,
              rule_score |-> rule_score]

(* round(x, 3): to the nearest multiple of 100, ties to even *)
Round3(x) ==
    LET q == x \div 100
        r == x % 100
    IN  IF r < 50 THEN 100 * q
        ELSE IF r > 50 THEN 100 * (q + 1)
        ELSE IF q % 2 = 0 THEN 100 * q ELSE 100 * (q + 1)

----------------------------------------------------------------------------
(* api/enhanced_routes.py: the shared component table *)

NoTime == 0 - 1         \* last_attempt = None
Absent == 0 - 1         \* a key the response does not carry

(* bert_classifier and risk_scorer hold 0 for None, else the number of the *)
(* load that built them.                                                  *)
AI_COMPONENTS_initial ==
    [bert_classifier |-> 0, feature_extractor |-> FALSE, risk_scorer |-> 0,
     initialized |-> FALSE, initialization_failed |-> FALSE,
     last_attempt |-> NoTime]

(* initialize_ai_components, lines 93-103: TRUE when the call returns      *)
(* without attempting a load at time t.                                    *)
InitSkips(c, t) ==
    \/ c.initialized
    \/ c.initialization_failed
    \/ (c.last_attempt # NoTime /\ t - c.last_attempt < BACKOFF)

(* line 105 *)
StampAttempt(c, t) == [c EXCEPT !.last_attempt = t]

(* lines 145-149: the worker's result arrived in time; id names the load *)
OnLoadSuccess(c, id) ==
    [c EXCEPT !.bert_classifier = id, !.feature_extractor = TRUE,
              !.risk_scorer = id, !.initialized = TRUE]

_initialize_fallback_components(c) ==
    [c EXCEPT !.feature_extractor = TRUE, !.initialized = TRUE]

(* A failure handler that only forgets the attempt. *)
OnLoadFailure_forgets(c) ==
    [c EXCEPT !.last_attempt = NoTime]

(* lines 158-163: the worker returned None, or the wait timed out *)
OnLoadFailure(c) ==
    _initialize_fallback_components(
        [c EXCEPT !.initialization_failed = TRUE, !.initialized = FALSE])

(* A reset that leaves the time of the last attempt in place. *)
ResetState_keeps_stamp(c) ==
    [c EXCEPT !.initialized = FALSE, !.initialization_failed = FALSE]

(* force_ai_initialization, lines 497-499 *)
ResetState(c) ==
    [c EXCEPT !.initialized = FALSE, !.initialization_failed = FALSE,
              !.last_attempt = NoTime]

(* A late result that is installed like one that came in time. *)
OnLateResult_installs(c, id) == OnLoadSuccess(c, id)

(* lines 134-136 after a timeout: the worker puts its result on the queue  *)
(* of its own call, which no one reads any more; the table is not touched. *)
OnLateResult(c, id) == c

(* The guard of the handlers before they call initialize_ai_components    *)
(* (lines 704, 1112, 1236).                                                *)
WantsInit(c) == ~c.initialized /\ ~c.initialization_failed

----------------------------------------------------------------------------
(* Risk levels and labels *)

(* scan_message, lines 750-764 *)
ScanLevel(risk_score) ==
    IF risk_score >= 80000 THEN [risk_level |-> "critical", classification |-> "scam"]
    ELSE IF risk_score >= 60000 THEN [risk_level |-> "high", classification |-> "phishing"]
    ELSE IF risk_score >= 40000 THEN [risk_level |-> "medium", classification |-> "suspicious"]
    ELSE IF risk_score >= 20000 THEN [risk_level |-> "low", classification |-> "questionable"]
    ELSE [risk_level |-> "safe", classification |-> "legitimate"]

(* _fallback_scan, lines 857-865 *)
FallbackLevel(risk_score) ==
    IF risk_score >= 70000 THEN [risk_level |-> "high", classification |-> "suspicious"]
    ELSE IF risk_score >= 40000 THEN [risk_level |-> "medium", classification |-> "questionable"]
    ELSE [risk_level |-> "low", classification |-> "likely_safe"]

(* bulk_scan_messages, lines 1151 and 1160 *)
BulkLevel(risk_score) ==
    [risk_level |->
        IF risk_score >= 80000 THEN "critical"
        ELSE IF risk_score >= 60000 THEN "high"
        ELSE IF risk_score >= 40000 THEN "medium"
        ELSE IF risk_score >= 20000 THEN "low" ELSE "safe",
     classification |->
        IF risk_score >= 70000 THEN "scam"
        ELSE IF risk_score >= 40000 THEN "suspicious" ELSE "safe"]

----------------------------------------------------------------------------
(* Single-item responses.  exact is the score before round(.., 3);         *)
(* predicted tells whether a classifier prediction went into the score,    *)
(* and analysis is then what risk_scorer.score returned; caught names the  *)
(* call whose exception the handler of line 820 caught.                    *)

suspicious_keywords ==
    {"urgent", "immediate", "verify", "suspended", "click here", "act now",
     "limited time", "congratulations", "winner", "lottery", "inheritance",
     "bitcoin", "cryptocurrency", "investment", "loan", "credit card",
     "bank account", "social security", "irs", "refund", "tax"}

urgency_indicators == {"urgent", "immediate", "act now", "limited time"}

(* _fallback_scan, lines 835-886 *)
_fallback_scan(text) ==
    LET keyword_score == Min(Count(text, suspicious_keywords) * 20000, 80000)
        urgency_score == IF Count(text, urgency_indicators) > 0 THEN 30000 ELSE 0
        risk_score == keyword_score + urgency_score
        lv == FallbackLevel(risk_score)
    IN  [status |-> "scored", risk_score |-> Round3(risk_score),
         risk_level |-> lv.risk_level, classification |-> lv.classification,
         confidence |-> 65000, fallback_mode |-> TRUE,
         model_version |-> "Fallback-v1.0", exact |-> risk_score,
         predicted |-> FALSE, caught |-> "none"]

(* scan_message, lines 681-687 *)
TooShortResult ==
    [status |-> "too_short", risk_score |-> 0, risk_level |-> "low",
     classification |-> None, confidence |-> Absent, fallback_mode |-> FALSE,
     model_version |-> None, exact |-> 0, predicted |-> FALSE, caught |-> "none"]

(* scan_message, lines 824-833: the outermost handler *)
AnalysisFailed ==
    [status |-> "error", risk_score |-> 0, risk_level |-> "unknown",
     classification |-> None, confidence |-> Absent, fallback_mode |-> FALSE,
     model_version |-> None, exact |-> 0, predicted |-> FALSE, caught |-> "none"]

(* An inner handler that lets the exception through to the outermost one. *)
OnAiError_propagates(text) == AnalysisFailed

(* scan_message, lines 820-822 *)
OnAiError(text) == _fallback_scan(text)

(* scan_message, lines 734-818: the branch taken when 'initialized' is set *)
AiScan(c, text, sender, metadata, prediction) ==
    IF ~c.feature_extractor \/ ExtractRaises(metadata)
    THEN [OnAiError(text) EXCEPT !.caught = "extract"]
    ELSE IF c.risk_scorer = 0       \* None has no score
    THEN [OnAiError(text) EXCEPT !.caught = "score"]
    ELSE LET r == score(extract(text, sender, metadata), prediction)
             lv == ScanLevel(r.final_score)
         IN  IF r.raised THEN [OnAiError(text) EXCEPT !.caught = "score"]
             ELSE [status |-> "scored", risk_score |-> Round3(r.final_score),
                   risk_level |-> lv.risk_level,
                   classification |-> lv.classification,
                   confidence |-> r.bert_confidence, fallback_mode |-> FALSE,
                   model_version |-> "Elephas-AI-v2.0",
                   exact |-> r.final_score, predicted |-> TRUE,
                   caught |-> "none", analysis |-> r]

(* scan_message, lines 712-822, with c the table after the initialization *)
(* attempt of lines 703-710.                                               *)
ScanResult(c, text, sender, metadata, prediction) ==
    IF ~c.initialized THEN _fallback_scan(text)
    ELSE AiScan(c, text, sender, metadata, prediction)

----------------------------------------------------------------------------
(* bulk_scan_messages, lines 1107-1191 *)

suspicious_terms == {"urgent", "click", "verify", "suspended", "winner"}

(* An id made from the position alone. *)
ItemId_from_position(item, results) == "msg_" \o ToString(Len(results))

(* msg_data.get('id', f"msg_{len(results)}") *)
ItemId(item, results) ==
    IF item.id # None THEN item.id ELSE "msg_" \o ToString(Len(results))

(* A per-item handler that passes the failure off as a safe result. *)
BulkError_unmarked(item, results) ==
    [id |-> ItemId(item, results), status |-> "scored", risk_score |-> 0,
     risk_level |-> "safe", classification |-> "safe", confidence |-> Absent,
     exact |-> 0, predicted |-> FALSE]

(* lines 1165-1172: the per-item handler *)
BulkError(item, results) ==
    [id |-> ItemId(item, results), status |-> "error", risk_score |-> 0,
     risk_level |-> "unknown", classification |-> None, confidence |-> Absent,
     exact |-> 0, predicted |-> FALSE]

(* lines 1156-1163 *)
BulkScored(item, results, risk_score, confidence, predicted) ==
    LET lv == BulkLevel(risk_score)
    IN  [id |-> ItemId(item, results), status |-> "scored",
         risk_score |-> Round3(risk_score), risk_level |-> lv.risk_level,
         classification |-> lv.classification, confidence |-> confidence,
         exact |-> risk_score, predicted |-> predicted]

(* lines 1122-1172: the entry one item appends to results *)
BulkEntry(c, item, results) ==
    IF item.text.len < MIN_LENGTH
    THEN [id |-> ItemId(item, results), status |-> "too_short", risk_score |-> 0,
          risk_level |-> "safe", classification |-> "too_short",
          confidence |-> Absent, exact |-> 0, predicted |-> FALSE]
    ELSE IF c.initialized
    THEN IF ~c.feature_extractor \/ c.risk_scorer = 0
         THEN BulkError(item, results)
         ELSE LET r == score(extract(item.text, item.sender, EmptyDict), item.prediction)
              IN  IF r.raised THEN BulkError(item, results)
                  ELSE BulkScored(item, results, r.final_score, r.bert_confidence, TRUE)
    ELSE BulkScored(item, results,
                    Min(Count(item.text, suspicious_terms) * 20000, 90000),
                    70000, FALSE)

(* lines 1118-1172: the loop over messages[lo..hi], which appends one      *)
(* entry after the other to results.  The range is folded by halves, the   *)
(* left half first, which keeps the evaluation of a long batch shallow.    *)
RECURSIVE BulkRange(_, _, _, _, _)
BulkRange(c, messages, lo, hi, results) ==
    IF lo > hi THEN results
    ELSE IF lo = hi THEN Append(results, BulkEntry(c, messages[lo], results))
    ELSE LET mid == (lo + hi) \div 2
             left == BulkRange(c, messages, lo, mid, results)
         IN  IF Len(left) >= Len(results)
             THEN BulkRange(c, messages, mid + 1, hi, left)
             ELSE left

BulkLoop(c, messages, results) ==
    BulkRange(c, messages, 1, Len(messages), results)

(* A summary that counts the scored entries only. *)
CountLevel_scored_only(results, level) ==
    Cardinality({i \in DOMAIN results :
                    results[i].status = "scored" /\ results[i].risk_level = level})

(* lines 1184-1188: len([r for r in results if r.get('risk_level') == level]) *)
CountLevel(results, level) ==
    Cardinality({i \in DOMAIN results : results[i].risk_level = level})

(* The calls of risk_scorer.score (line 1141) that the loop makes *)
ScoreCalls(c, messages) ==
    Cardinality({i \in DOMAIN messages :
                    /\ messages[i].text.len >= MIN_LENGTH
                    /\ c.initialized /\ c.feature_extractor /\ c.risk_scorer # 0})

(* lines 1115-1116: HTTPException(400), raised before the loop *)
TooManyMessages(messages) ==
    [status |-> "http_400", total_messages |-> Len(messages), processed |-> 0,
     score_calls |-> 0, results |-> <<>>, summary |-> [l \in {} |-> 0]]

(* A size check that already turns away a batch of exactly the cap. *)
BulkResponse_rejects_at_cap(c, messages) ==
    IF Len(messages) >= BATCH_CAP
    THEN TooManyMessages(messages)
    ELSE [status |-> "ok", total_messages |-> Len(messages),
          processed |-> Len(BulkLoop(c, messages, <<>>)),
          score_calls |-> ScoreCalls(c, messages),
          results |-> BulkLoop(c, messages, <<>>),
          summary |-> [l \in {"safe", "low", "medium", "high", "critical"} |->
                          CountLevel(BulkLoop(c, messages, <<>>), l)]]

(* lines 1115-1191, with c the table after the initialization attempt of   *)
(* lines 1112-1113                                                         *)
BulkResponse(c, messages) ==
    IF Len(messages) > BATCH_CAP
    THEN TooManyMessages(messages)
    ELSE LET results == BulkLoop(c, messages, <<>>)
         IN  [status |-> "ok", total_messages |-> Len(messages),
              processed |-> Len(results),
              score_calls |-> ScoreCalls(c, messages),
              results |-> results,
              summary |-> [l \in {"safe", "low", "medium", "high", "critical"} |->
                              CountLevel(results, l)]]

----------------------------------------------------------------------------
(* enhanced_scan, lines 1231-1301 *)

EnhancedResponse(c, text, sender, metadata, prediction) ==
    IF ~c.initialized THEN [status |-> "http_503"]
    ELSE IF ~c.feature_extractor \/ ExtractRaises(metadata) \/ c.risk_scorer = 0
    THEN [status |-> "http_500"]
    ELSE LET r == score(extract(text, sender, metadata), prediction)
         IN  IF r.raised THEN [status |-> "http_500"]
             ELSE [status |-> "scored", risk_score |-> Round3(r.final_score),
                   risk_level |-> BulkLevel(r.final_score).risk_level,
                   classification |-> "unknown",
                   confidence |-> r.bert_confidence, exact |-> r.final_score,
                   predicted |-> TRUE]

(* health, lines 389-398: components.ai *)
health_data(c) ==
    [status |-> "ok",
     ai |-> IF c.initialized THEN "initialized"
            ELSE IF c.initialization_failed THEN "fallback_mode"
            ELSE "not_initialized"]

(* ai_status, lines 406-415 *)
AiStatusResponse(c) ==
    [ai_initialized |-> c.initialized,
     initialization_failed |-> c.initialization_failed,
     last_attempt |-> c.last_attempt,
     risk_scorer_loaded |-> c.risk_scorer # 0,
     mode |-> IF c.initialized THEN "AI-powered" ELSE "fallback"]

(* force_ai_initialization, lines 505-510 *)
ForceResponse(c) ==
    [status |-> "ok", success |-> c.initialized, initialized |-> c.initialized,
     failed |-> c.initialization_failed]

----------------------------------------------------------------------------
(* Request bodies *)

Text(ts, sh) == [len |-> 40, terms |-> ts, shape |-> sh]

(* "Congratulations! You've won $1,000,000! Click here to claim your       *)
(* prize now before it expires!" (test_enhanced_api.py)                    *)
PrizeText == Text({"congratulations", "$", "prize", "click here", "expires"}, PlainShape)

ScanBodies ==
    { [text |-> ShortText, sender |-> "", metadata |-> EmptyDict],
      [text |-> PrizeText, sender |-> "", metadata |-> EmptyDict] } \cup
    { [text |-> Text(ts, PlainShape), sender |-> "", metadata |-> EmptyDict] :
        ts \in SUBSET Phrases } \cup
    { [text |-> Text(ts, sh), sender |-> s, metadata |-> EmptyDict] :
        ts \in {{}, {"urgent", "winner", "click here"}}, sh \in Shapes,
        s \in Senders } \cup
    { [text |-> Text(ts, sh), sender |-> "", metadata |-> md] :
        ts \in {{}, {"urgent", "winner", "click here"}}, sh \in Shapes,
        md \in Metadatas }

Outcomes == Predictions \cup {Raises}

BulkTexts ==
    { Text({}, PlainShape),
      Text({"urgent", "verify", "suspended", "winner"}, PlainShape) }

BulkItems ==
    { [id |-> "a", text |-> t, sender |-> "", prediction |-> [p |-> 85000, c |-> 85000]] :
        t \in BulkTexts } \cup
    { [id |-> "a", text |-> Text({}, PlainShape), sender |-> "", prediction |-> Raises] } \cup
    { [id |-> None, text |-> Text({}, PlainShape), sender |-> "",
       prediction |-> [p |-> 85000, c |-> 85000]] } \cup
    { [id |-> "b", text |-> ShortText, sender |-> "", prediction |-> [p |-> 0, c |-> ONE]] }

EnhancedBodies ==
    { [text |-> Text(ts, PlainShape), sender |-> "", metadata |-> EmptyDict] :
        ts \in {{}, {"urgent", "winner", "click here"}} }

HighRiskItem ==
    [id |-> "a", text |-> Text({"urgent", "verify", "suspended", "winner"}, PlainShape),
     sender |-> "", prediction |-> [p |-> 85000, c |-> 85000]]

(* Every batch of up to MaxBatch items, and batches of identical items at *)
(* the cap and one above it.                                               *)
Batches ==
    UNION { [1..n -> BulkItems] : n \in 0..MaxBatch } \cup
    { [i \in 1..n |-> HighRiskItem] : n \in {BATCH_CAP, BATCH_CAP + 1} }

----------------------------------------------------------------------------
(* API keys: core/auth_system.py and the dependencies of api/enhanced_routes.py *)

(* secrets.token_urlsafe(32): a random string of URL-safe characters.  It   *)
(* is told apart by whether it happens to begin with "sk_" and by the rest. *)
Tokens == { [starts_with_sk |-> s, rest |-> r] : s \in BOOLEAN, r \in {"t1"} }

(* The Authorization header of a request: absent, or Bearer with a token. *)
NoCredentials == [starts_with_sk |-> FALSE, rest |-> ""]

Headers == Tokens \cup {NoCredentials}

(* hashlib.sha256(...).hexdigest(): different strings, different digests *)
sha256(raw_key) == <<"sha256", raw_key.starts_with_sk, raw_key.rest>>

(* key_id = "sk_" + token_urlsafe(16): the n-th key made gets the n-th id *)
KeyId(n) == IF n = 1 THEN "sk_id1" ELSE IF n = 2 THEN "sk_id2" ELSE "sk_id3"

KeyIds == { KeyId(n) : n \in 1..MaxKeys }

(* Optional[APIKey]: None, written as a record so that it compares with one *)
NoKey ==
    [key_id |-> "None", key_hash |-> <<>>, tier |-> "", is_active |-> FALSE,
     expires_at |-> NoTime, daily_limit |-> 0, monthly_limit |-> 0,
     current_daily_usage |-> 0, current_monthly_usage |-> 0]

(* get_api_key raised HTTPException(429) *)
RateLimited == [NoKey EXCEPT !.key_id = "429"]

RateLimitExceeded == [status |-> "http_429", caught |-> "none"]

(* tier_limits, lines 75-81; an unknown tier gets the limits of "basic" *)
tier_limits(tier) ==
    IF tier = "pro" THEN [daily |-> PRO_DAILY, monthly |-> PRO_MONTHLY]
    ELSE IF tier = "enterprise" THEN [daily |-> ENTERPRISE_DAILY, monthly |-> ENTERPRISE_MONTHLY]
    ELSE [daily |-> BASIC_DAILY, monthly |-> BASIC_MONTHLY]

(* generate_api_key: the record it stores for a new key *)
NewKey(raw_key, key_id, tier, t) ==
    [key_id |-> key_id, key_hash |-> sha256(raw_key), tier |-> tier,
     is_active |-> TRUE, expires_at |-> t + ONE_YEAR,
     daily_limit |-> tier_limits(tier).daily,
     monthly_limit |-> tier_limits(tier).monthly,
     current_daily_usage |-> 0, current_monthly_usage |-> 0]

(* _save_api_key *)
_save_api_key(keys, api_key) == Append(keys, api_key)

(* validate_api_key: the first stored record with the hash of the key,    *)
(* active and unexpired; None for a key that does not begin with "sk_".   *)
Matches(keys, key_hash, t) ==
    { i \in 1..Len(keys) :
        /\ keys[i].key_hash = key_hash
        /\ keys[i].is_active
        /\ keys[i].expires_at = NoTime \/ keys[i].expires_at > t }

validate_api_key(keys, api_key, t) ==
    IF api_key = NoCredentials \/ ~api_key.starts_with_sk
    THEN NoKey
    ELSE LET found == Matches(keys, sha256(api_key), t)
         IN  IF found = {} THEN NoKey
             ELSE keys[CHOOSE i \in found : \A j \in found : i <= j]

(* check_rate_limit: the "allowed" entry of the result *)
check_rate_limit(api_key) ==
    /\ api_key.current_daily_usage < api_key.daily_limit
    /\ api_key.current_monthly_usage < api_key.monthly_limit

(* get_api_key, the optional dependency of enhanced_routes.py *)
get_api_key(keys, authorization, t) ==
    IF authorization = NoCredentials THEN NoKey
    ELSE LET api_key == validate_api_key(keys, authorization, t)
         IN  IF api_key = NoKey THEN NoKey
             ELSE IF ~check_rate_limit(api_key) THEN RateLimited
             ELSE api_key

(* _save_usage: one more record for the key *)
_save_usage(logs, key_id) == [logs EXCEPT ![key_id] = @ + 1]

(* _increment_usage_counters: the body is "pass" *)
_increment_usage_counters(keys, key_id) == keys

(* The scan results after which scan_message calls log_usage, when the    *)
(* request carried a valid key: too short (line 689), rule-based without  *)
(* components (line 720), scored by the components (line 806).  The       *)
(* handlers of both except clauses return without that call.              *)
LogsUsage(kind, body, api_key) ==
    /\ kind = "scan"
    /\ api_key # NoKey
    /\ body.status \in {"too_short", "scored"}
    /\ body.caught = "none"

----------------------------------------------------------------------------
(* State *)

VARIABLES
    AI_COMPONENTS,  \* the global component table
    now,            \* time.time()
    load_calls,     \* worker threads started so far
    orphans,        \* the workers still running after their wait timed out
    blocked,        \* handlers inside result_queue.get, each with its worker
    pending,        \* requests accepted while the event loop is held
    resp,           \* the response being sent, if any, with the messages
                    \* of the /scan or /scan/bulk request it answers
    hist,           \* the latest load attempt: when it started, how it ended
    ev,             \* what the last step was
    api_keys,       \* database/api_keys.json: the stored key records
    usage_logs      \* database/usage_logs.json: records per api_key_id

vars == <<AI_COMPONENTS, now, load_calls, orphans, blocked, pending, resp, hist, ev,
          api_keys, usage_logs>>

Kinds == {"scan", "bulk", "enhanced", "force"}

Init ==
    /\ AI_COMPONENTS = AI_COMPONENTS_initial
    /\ now = 0
    /\ load_calls = 0
    /\ orphans = {}
    /\ blocked = {}
    /\ pending = <<>>
    /\ resp = [kind |-> "none"]
    /\ hist = [outcome |-> "none", started |-> NoTime,
               before |-> [outcome |-> "none", started |-> NoTime]]
    /\ ev = [op |-> "start", kind |-> "none", loaded |-> FALSE]
    /\ api_keys = <<>>
    /\ usage_logs = [k \in KeyIds |-> 0]

(* A wait handed to another thread would leave the loop free throughout. *)
LoopFree_never_held == TRUE

(* The event loop runs a handler only when no handler holds it: the wait  *)
(* of line 144 is a synchronous call made on the loop's own thread.        *)
LoopFree == blocked = {}

(* No response is on its way out. *)
Quiet == resp.kind = "none"

(* The request a handler serves: the oldest queued one, or a new one when  *)
(* none is queued.                                                         *)
Take(kind) ==
    IF pending # <<>>
    THEN Head(pending) = kind /\ pending' = Tail(pending)
    ELSE UNCHANGED pending

(* log_usage for the request being answered, if scan_message makes the call *)
LogIfAuthenticated(kind, body, api_key) ==
    IF LogsUsage(kind, body, api_key)
    THEN /\ usage_logs[api_key.key_id] < MaxUsage
         /\ usage_logs' = _save_usage(usage_logs, api_key.key_id)
         /\ api_keys' = _increment_usage_counters(api_keys, api_key.key_id)
    ELSE UNCHANGED <<api_keys, usage_logs>>

(* lines 105-140: stamp the attempt, start the worker thread, wait *)
StartLoadFor(kind, c, api_key) ==
    /\ load_calls < MaxLoads
    /\ AI_COMPONENTS' = StampAttempt(c, now)
    /\ load_calls' = load_calls + 1
    /\ blocked' = blocked \cup {[kind |-> kind, id |-> load_calls + 1,
                                  queued |-> pending # <<>>, api_key |-> api_key]}
    /\ hist' = [outcome |-> "pending", started |-> now,
                before |-> [outcome |-> hist.outcome, started |-> hist.started]]
    /\ ev' = [op |-> "begin", kind |-> kind, loaded |-> TRUE]
    /\ UNCHANGED <<now, orphans, resp, api_keys, usage_logs>>

StartLoad(kind, c) == StartLoadFor(kind, c, NoKey)

(* The handler runs through without waiting for a load. *)
AnswerFor(kind, c, messages, chars, body, api_key) ==
    /\ AI_COMPONENTS' = c
    /\ resp' = [kind |-> kind, waited |-> FALSE, queued |-> pending # <<>>,
                messages |-> messages, chars |-> chars, body |-> body,
                api_key |-> api_key]
    /\ ev' = [op |-> "whole", kind |-> kind, loaded |-> FALSE]
    /\ LogIfAuthenticated(kind, body, api_key)
    /\ UNCHANGED <<now, load_calls, orphans, blocked, hist>>

Answer(kind, c, messages, chars, body) ==
    AnswerFor(kind, c, messages, chars, body, NoKey)

(* POST /scan with one of the given Authorization headers and bodies.  The *)
(* dependency get_api_key runs first and may end the request with 429.     *)
ScanRequest(headers, bodies, outcomes) ==
    /\ Quiet
    /\ LoopFree
    /\ Take("scan")
    /\ \E authorization \in headers, b \in bodies, pr \in outcomes :
          LET api_key == get_api_key(api_keys, authorization, now)
          IN  IF api_key = RateLimited
              THEN AnswerFor("scan", AI_COMPONENTS, <<b>>, b.text.len,
                             RateLimitExceeded, NoKey)
              ELSE IF b.text.len < MIN_LENGTH
              THEN AnswerFor("scan", AI_COMPONENTS, <<b>>, b.text.len,
                             TooShortResult, api_key)
              ELSE IF WantsInit(AI_COMPONENTS) /\ ~InitSkips(AI_COMPONENTS, now)
              THEN StartLoadFor("scan", AI_COMPONENTS, api_key)
              ELSE AnswerFor("scan", AI_COMPONENTS, <<b>>, b.text.len,
                             ScanResult(AI_COMPONENTS, b.text, b.sender, b.metadata, pr),
                             api_key)

(* POST /scan without an Authorization header *)
scan_message == ScanRequest({NoCredentials}, ScanBodies, Outcomes)

(* POST /scan/bulk *)
bulk_scan_messages ==
    /\ Quiet
    /\ LoopFree
    /\ Take("bulk")
    /\ IF WantsInit(AI_COMPONENTS) /\ ~InitSkips(AI_COMPONENTS, now)
       THEN StartLoad("bulk", AI_COMPONENTS)
       ELSE \E messages \in Batches :
               Answer("bulk", AI_COMPONENTS, messages, Absent,
                      BulkResponse(AI_COMPONENTS, messages))

(* POST /scan/enhanced *)
enhanced_scan ==
    /\ Quiet
    /\ LoopFree
    /\ Take("enhanced")
    /\ IF WantsInit(AI_COMPONENTS) /\ ~InitSkips(AI_COMPONENTS, now)
       THEN StartLoad("enhanced", AI_COMPONENTS)
       ELSE \E b \in EnhancedBodies, pr \in Outcomes :
               Answer("enhanced", AI_COMPONENTS, <<>>, b.text.len,
                      EnhancedResponse(AI_COMPONENTS, b.text, b.sender, b.metadata, pr))

(* POST /debug/force-init *)
force_ai_initialization ==
    /\ Quiet
    /\ LoopFree
    /\ Take("force")
    /\ LET c == ResetState(AI_COMPONENTS)
       IN  IF ~InitSkips(c, now)
           THEN StartLoad("force", c)
           ELSE Answer("force", c, <<>>, Absent, ForceResponse(c))

(* GET /health.  The status requests that come in while the event loop is *)
(* held are answered once it is free, as if they had come in then.         *)
health ==
    /\ Quiet
    /\ LoopFree
    /\ Take("health")
    /\ Answer("health", AI_COMPONENTS, <<>>, Absent, health_data(AI_COMPONENTS))

(* GET /ai-status *)
ai_status ==
    /\ Quiet
    /\ LoopFree
    /\ Take("ai_status")
    /\ Answer("ai_status", AI_COMPONENTS, <<>>, Absent, AiStatusResponse(AI_COMPONENTS))

(* What the handler that waited sends once its wait is over. *)
Resume(h, c, bodies, outcomes) ==
    /\ blocked' = blocked \ {h}
    /\ AI_COMPONENTS' = c
    /\ ev' = [op |-> "end", kind |-> h.kind, loaded |-> FALSE]
    /\ \/ /\ h.kind = "scan"
          /\ \E b \in bodies, pr \in outcomes :
                /\ b.text.len >= MIN_LENGTH
                /\ resp' = [kind |-> "scan", waited |-> TRUE, queued |-> h.queued,
                            messages |-> <<b>>, chars |-> b.text.len,
                            body |-> ScanResult(c, b.text, b.sender, b.metadata, pr),
                            api_key |-> h.api_key]
       \/ /\ h.kind = "bulk"
          /\ \E messages \in Batches :
                resp' = [kind |-> "bulk", waited |-> TRUE, queued |-> h.queued,
                         messages |-> messages, chars |-> Absent,
                         body |-> BulkResponse(c, messages), api_key |-> NoKey]
       \/ /\ h.kind = "enhanced"
          /\ \E b \in EnhancedBodies, pr \in Outcomes :
                resp' = [kind |-> "enhanced", waited |-> TRUE, queued |-> h.queued,
                         messages |-> <<>>, chars |-> b.text.len,
                         body |-> EnhancedResponse(c, b.text, b.sender, b.metadata, pr), api_key |-> NoKey]
       \/ /\ h.kind = "force"
          /\ resp' = [kind |-> "force", waited |-> TRUE, queued |-> h.queued,
                      messages |-> <<>>, chars |-> Absent, body |-> ForceResponse(c), api_key |-> NoKey]
    /\ LogIfAuthenticated(resp'.kind, resp'.body, resp'.api_key)

(* The worker puts its result on the queue before the timeout: the built   *)
(* components (line 126) or None (line 129).                               *)
WorkerReturnsTo(bodies, outcomes) ==
    \E h \in blocked, built \in BOOLEAN :
        /\ Quiet
        /\ WorkerTime < LOAD_TIMEOUT
        /\ now' = now + WorkerTime
        /\ hist' = [hist EXCEPT !.outcome = IF built THEN "ok" ELSE "failed"]
        /\ Resume(h, IF built THEN OnLoadSuccess(AI_COMPONENTS, h.id)
                     ELSE OnLoadFailure(AI_COMPONENTS), bodies, outcomes)
        /\ UNCHANGED <<load_calls, orphans, pending>>

WorkerReturns == WorkerReturnsTo(ScanBodies, Outcomes)

(* queue.Empty after 120 s, lines 153-156; the worker thread keeps running *)
WaitTimesOutFor(bodies, outcomes) ==
    \E h \in blocked :
        /\ Quiet
        /\ now' = now + LOAD_TIMEOUT
        /\ hist' = [hist EXCEPT !.outcome = "failed"]
        /\ orphans' = orphans \cup {h.id}
        /\ Resume(h, OnLoadFailure(AI_COMPONENTS), bodies, outcomes)
        /\ UNCHANGED <<load_calls, pending>>

WaitTimesOut == WaitTimesOutFor(ScanBodies, Outcomes)

(* A worker whose wait timed out ends: its result goes to a queue that     *)
(* nobody reads any more.                                                  *)
LateWorkerEnds ==
    \E id \in orphans, built \in BOOLEAN :
        /\ Quiet
        /\ orphans' = orphans \ {id}
        /\ AI_COMPONENTS' = OnLateResult(AI_COMPONENTS, id)
        /\ ev' = [op |-> "late", kind |-> "none", loaded |-> FALSE,
                  id |-> id, built |-> built]
        /\ UNCHANGED <<now, load_calls, blocked, pending, resp, hist,
                       api_keys, usage_logs>>

(* A request reaches the server while the event loop is held. *)
Arrive ==
    \E kind \in Kinds :
        /\ Quiet
        /\ ~LoopFree
        /\ Len(pending) < MaxPending
        /\ pending' = Append(pending, kind)
        /\ ev' = [op |-> "arrive", kind |-> kind, loaded |-> FALSE]
        /\ UNCHANGED <<AI_COMPONENTS, now, load_calls, orphans, blocked, resp, hist,
                       api_keys, usage_logs>>

(* The handler returns and its response leaves the server. *)
Return ==
    /\ ~Quiet
    /\ resp' = [kind |-> "none"]
    /\ ev' = [op |-> "return", kind |-> "none", loaded |-> FALSE]
    /\ UNCHANGED <<AI_COMPONENTS, now, load_calls, orphans, blocked, pending, hist,
                   api_keys, usage_logs>>

(* Time passes while the server is idle. *)
TickClock ==
    /\ Quiet
    /\ LoopFree
    /\ pending = <<>>
    /\ now < MaxTime
    /\ now' = now + Tick
    /\ ev' = [op |-> "tick", kind |-> "none", loaded |-> FALSE]
    /\ UNCHANGED <<AI_COMPONENTS, load_calls, orphans, blocked, pending, resp, hist,
                   api_keys, usage_logs>>

Next ==
    \/ scan_message
    \/ bulk_scan_messages
    \/ enhanced_scan
    \/ force_ai_initialization
    \/ health
    \/ ai_status
    \/ WorkerReturns
    \/ WaitTimesOut
    \/ LateWorkerEnds
    \/ Arrive
    \/ Return
    \/ TickClock

Spec == Init /\ [][Next]_vars

(* The server with API keys in use: keys are made, and /scan requests come *)
(* with and without one.                                                   *)

Tiers == {"basic"}

KeyedBodies ==
    { [text |-> t, sender |-> "", metadata |-> EmptyDict] : t \in {ShortText, PrizeText} }

KeyedOutcomes == { [p |-> 85000, c |-> 85000], Raises }

(* POST /enterprise/create-api-key *)
create_enterprise_api_key ==
    /\ Quiet
    /\ LoopFree
    /\ Len(api_keys) < MaxKeys
    /\ \E raw_key \in Tokens, tier \in Tiers :
          LET key_id == KeyId(Len(api_keys) + 1)
              api_key == NewKey(raw_key, key_id, tier, now)
          IN  /\ api_keys' = _save_api_key(api_keys, api_key)
              /\ resp' = [kind |-> "create_key", waited |-> FALSE, queued |-> FALSE,
                          messages |-> <<>>, chars |-> Absent,
                          body |-> [status |-> "created", api_key |-> raw_key,
                                    key_id |-> key_id, tier |-> tier,
                                    daily_limit |-> api_key.daily_limit,
                                    monthly_limit |-> api_key.monthly_limit,
                                    expires_at |-> api_key.expires_at],
                          api_key |-> NoKey]
    /\ ev' = [op |-> "whole", kind |-> "create_key", loaded |-> FALSE]
    /\ UNCHANGED <<AI_COMPONENTS, now, load_calls, orphans, blocked, pending, hist,
                   usage_logs>>

(* POST /scan with or without an Authorization header *)
scan_message_with_key == ScanRequest(Headers, KeyedBodies, KeyedOutcomes)

KeyedWorkerReturns == WorkerReturnsTo(KeyedBodies, KeyedOutcomes)

KeyedWaitTimesOut == WaitTimesOutFor(KeyedBodies, KeyedOutcomes)

KeyedNext ==
    \/ create_enterprise_api_key
    \/ scan_message_with_key
    \/ KeyedWorkerReturns
    \/ KeyedWaitTimesOut
    \/ LateWorkerEnds
    \/ Return

KeyedSpec == Init /\ [][KeyedNext]_vars

TypeOK ==
    /\ AI_COMPONENTS.initialized \in BOOLEAN
    /\ load_calls \in 0..MaxLoads
    /\ now >= 0

----------------------------------------------------------------------------
(* Properties *)

ScanKinds == {"scan", "bulk", "enhanced"}

(* A load is awaited: the lifecycle state Initializing *)
Initializing == blocked # {}

(* No classifier is installed in the table *)
ClassifierUnavailable == AI_COMPONENTS.risk_scorer = 0

InUnitRange(x) == 0 <= x /\ x <= ONE

(* C1: every result that carries a risk score has 0 <= risk_score <= 1, on *)
(* the ML path, the rule-fallback path of /scan and the batch path.        *)
C1_ScoreInUnitRange ==
    /\ resp.kind = "scan" =>
          InUnitRange(resp.body.risk_score) /\ InUnitRange(resp.body.exact)
    /\ resp.kind = "bulk" =>
          \A i \in DOMAIN resp.body.results :
              InUnitRange(resp.body.results[i].risk_score)

(* The threshold table of the specification *)
TableLevel(x) ==
    IF x < 20000 THEN "safe"
    ELSE IF x < 40000 THEN "low"
    ELSE IF x < 60000 THEN "medium"
    ELSE IF x < 80000 THEN "high" ELSE "critical"

(* C2: on every path the risk level of a scored result is the bucket of    *)
(* the one threshold table (0.2, 0.4, 0.6, 0.8) that holds its risk score. *)
C2_LevelIsTableBucket ==
    /\ resp.kind = "scan" /\ resp.body.status = "scored" =>
          resp.body.risk_level = TableLevel(resp.body.risk_score)
    /\ resp.kind = "bulk" =>
          \A i \in DOMAIN resp.body.results :
              resp.body.results[i].status = "scored" =>
                  resp.body.results[i].risk_level =
                      TableLevel(resp.body.results[i].risk_score)

(* C3: in every state of the classifier a /scan request with a text of at  *)
(* least 3 characters is answered with a scored result (risk score, risk   *)
(* level, classification), never with an error, and with a rule-fallback   *)
(* result when no classifier is installed.                                 *)
C3_ScanAlwaysScores ==
    resp.kind = "scan" /\ resp.chars >= MIN_LENGTH =>
        /\ resp.body.status = "scored"
        /\ resp.body.risk_level \in {"safe", "low", "medium", "high", "critical"}
        /\ resp.body.classification # None
        /\ resp.body.risk_score >= 0
        /\ ClassifierUnavailable =>
              resp.body.fallback_mode /\ resp.body.model_version = "Fallback-v1.0"

(* The request that started a load which then failed got a fallback result *)
C3_Witness ==
    /\ resp.kind = "scan" /\ resp.waited
    /\ hist.outcome = "failed" /\ ClassifierUnavailable
    /\ resp.body.status = "scored" /\ resp.body.fallback_mode

(* C4: with no classifier installed, /scan/bulk scores every item of at    *)
(* least 3 characters by rule: no entry is an error entry and none has the *)
(* risk level "unknown".                                                   *)
C4_BulkFallsBack ==
    resp.kind = "bulk" /\ ClassifierUnavailable =>
        \A i \in DOMAIN resp.body.results :
            /\ resp.body.results[i].status # "error"
            /\ resp.body.results[i].risk_level # "unknown"

(* C5: a result made without a classifier prediction is flagged as         *)
(* rule-fallback and has confidence 0.65, on /scan and in every entry of   *)
(* /scan/bulk.                                                             *)
C5_FallbackConfidence ==
    /\ resp.kind = "scan" /\ resp.chars >= MIN_LENGTH /\ ~resp.body.predicted =>
          resp.body.fallback_mode /\ resp.body.confidence = 65000
    /\ resp.kind = "bulk" =>
          \A i \in DOMAIN resp.body.results :
              LET e == resp.body.results[i]
              IN  e.status # "too_short" /\ ~e.predicted =>
                      e.status = "scored" /\ e.confidence = 65000

(* C6: a load worker is started only when no load is awaited, one at a     *)
(* time, and each start is one transition into Initializing; while a load  *)
(* is awaited no request of any kind starts another.                       *)
C6_OneLoadInFlight ==
    [][ /\ load_calls' # load_calls =>
              load_calls' = load_calls + 1 /\ ~Initializing /\ Initializing'
        /\ ~Initializing /\ Initializing' => load_calls' = load_calls + 1
        /\ Cardinality(blocked') <= 1 ]_vars

(* A scan request that arrived during the load was served afterwards, and  *)
(* still only one worker has been started.                                 *)
C6_Witness ==
    /\ resp.kind \in ScanKinds /\ resp.queued
    /\ load_calls = 1

(* A step in which a handler of a scan request runs *)
ScanHandlerStep ==
    ev'.kind \in ScanKinds /\ ev'.op \in {"begin", "whole"}

(* C7: after a load attempt failed or timed out, a scan request handled    *)
(* less than 300 s after that attempt started starts no load.              *)
C7_NoRetryInBackoff ==
    [][ hist.outcome = "failed" /\ now < hist.started + BACKOFF /\ ScanHandlerStep
            => load_calls' = load_calls ]_vars

C7_Witness ==
    /\ resp.kind = "scan" /\ ~resp.waited /\ resp.chars >= MIN_LENGTH
    /\ hist.outcome = "failed" /\ now < hist.started + BACKOFF
    /\ resp.body.status = "scored"

(* C8: after a load attempt failed, a /scan request with a text of at      *)
(* least 3 characters handled 300 s or more after that attempt started     *)
(* starts a new load attempt.                                              *)
C8_RetryAfterBackoff ==
    [][ ( /\ hist.outcome = "failed"
          /\ now >= hist.started + BACKOFF
          /\ ev'.kind = "scan"
          /\ ev'.op = "begin" \/ (ev'.op = "whole" /\ resp'.chars >= MIN_LENGTH) )
        => load_calls' = load_calls + 1 ]_vars

(* C9: no /scan request waits for a load: none is inside the wait, none is *)
(* queued behind it, and no /scan response is sent by a handler that       *)
(* waited.                                                                 *)
C9_ScanNeverWaits ==
    /\ \A h \in blocked : h.kind # "scan"
    /\ Initializing => \A i \in DOMAIN pending : pending[i] # "scan"
    /\ resp.kind = "scan" => ~resp.waited

(* C10: the handler of the force reset always starts a load at once,       *)
(* whatever the state and however recent the last attempt: it never        *)
(* returns without having waited for a load, and after its first step the  *)
(* failed and ready flags are clear, the attempt is stamped with the       *)
(* current time, and the handler awaits the newest worker.                 *)
C10_ForceStartsLoad ==
    ev.kind = "force" /\ ev.op # "arrive" =>
        /\ ev.op \in {"begin", "end"}
        /\ ev.op = "begin" =>
              /\ ~AI_COMPONENTS.initialization_failed
              /\ ~AI_COMPONENTS.initialized
              /\ AI_COMPONENTS.last_attempt = now
              /\ \E h \in blocked : h.kind = "force" /\ h.id = load_calls
              /\ hist.outcome = "pending" /\ hist.started = now

(* The force reset came less than 300 s after an attempt that failed *)
C10_Witness ==
    /\ ev.kind = "force" /\ ev.op = "begin"
    /\ hist.before.outcome = "failed"
    /\ now < hist.before.started + BACKOFF
    /\ Initializing

----------------------------------------------------------------------------
(* The lifecycle of the classifier, read off the table as /health and      *)
(* /ai-status read it                                                      *)

Ready == AI_COMPONENTS.initialized

DegradedPermanent == AI_COMPONENTS.initialization_failed

Uninitialized == ~Ready /\ ~DegradedPermanent /\ ~Initializing

Lifecycle ==
    {s \in {"Uninitialized", "Initializing", "Ready", "DegradedPermanent"} :
        \/ s = "Uninitialized" /\ Uninitialized
        \/ s = "Initializing" /\ Initializing
        \/ s = "Ready" /\ Ready
        \/ s = "DegradedPermanent" /\ DegradedPermanent}

(* C11: in every reachable state the lifecycle is in exactly one of        *)
(* Uninitialized, Initializing, Ready, DegradedPermanent: the flags        *)
(* 'initialized' and 'initialization_failed' are never both set.           *)
C11_OneLifecycleState ==
    /\ Cardinality(Lifecycle) = 1
    /\ ~(AI_COMPONENTS.initialized /\ AI_COMPONENTS.initialization_failed)

(* C12: when a load attempt has ended with an error or with the 120 s      *)
(* timeout, the state is DegradedPermanent, not Ready and not              *)
(* Initializing.                                                           *)
C12_FailedLoadDegrades ==
    ev.op = "end" /\ hist.outcome = "failed" =>
        DegradedPermanent /\ ~Ready /\ ~Initializing

(* An answered bulk request *)
BulkDone == resp.kind = "bulk" /\ resp.body.status = "ok"

(* C13: a batch of more than 100 items is rejected with the size-limit     *)
(* error and none of its items is scored; a batch of exactly 100 items is  *)
(* accepted and yields 100 results.                                        *)
C13_BatchCap ==
    resp.kind = "bulk" =>
        /\ Len(resp.messages) > BATCH_CAP =>
              /\ resp.body.status = "http_400"
              /\ resp.body.score_calls = 0
              /\ resp.body.results = <<>>
        /\ Len(resp.messages) = BATCH_CAP =>
              /\ resp.body.status = "ok"
              /\ Len(resp.body.results) = BATCH_CAP
              /\ resp.body.processed = BATCH_CAP

(* A batch of 101 items was turned away *)
C13_Witness ==
    /\ resp.kind = "bulk"
    /\ Len(resp.messages) = BATCH_CAP + 1
    /\ resp.body.status = "http_400"

(* Scoring this item raises an exception in the table state c *)
ScoringRaises(c, item) ==
    /\ item.text.len >= MIN_LENGTH
    /\ c.initialized
    /\ ~c.feature_extractor \/ c.risk_scorer = 0 \/ item.prediction = Raises

(* C14: in /scan/bulk an exception raised while one item is scored makes   *)
(* an error entry in the slot of that item and in no other: every other    *)
(* item has its own scored or too-short entry, and the call answers.       *)
C14_ErrorStaysInItsSlot ==
    resp.kind = "bulk" /\ Len(resp.messages) <= BATCH_CAP =>
        /\ resp.body.status = "ok"
        /\ Len(resp.body.results) = Len(resp.messages)
        /\ \A i \in DOMAIN resp.body.results :
              IF ScoringRaises(AI_COMPONENTS, resp.messages[i])
              THEN resp.body.results[i].status = "error"
              ELSE /\ resp.body.results[i].status \in {"scored", "too_short"}
                   /\ resp.body.results[i].risk_level # "unknown"

(* With the classifier installed, one item of a batch failed and the       *)
(* other was scored.                                                       *)
C14_Witness ==
    /\ BulkDone /\ ~ClassifierUnavailable
    /\ Len(resp.body.results) = 2
    /\ \E i, j \in DOMAIN resp.body.results :
          /\ resp.body.results[i].status = "error"
          /\ resp.body.results[j].status = "scored"
          /\ resp.body.results[j].predicted

(* C15: /scan/bulk returns one entry per input item, in input order: the   *)
(* entry at position i carries the id of input item i, and processed       *)
(* equals total_messages, whether the items were scored, too short or      *)
(* failed.                                                                 *)
C15_OneEntryPerItemInOrder ==
    BulkDone =>
        /\ Len(resp.body.results) = Len(resp.messages)
        /\ resp.body.processed = resp.body.total_messages
        /\ resp.body.total_messages = Len(resp.messages)
        /\ \A i \in DOMAIN resp.messages :
              resp.messages[i].id # None =>
                  resp.body.results[i].id = resp.messages[i].id

(* Two items with different ids, one of them too short and the other not *)
C15_Witness ==
    /\ BulkDone
    /\ Len(resp.messages) = 2
    /\ resp.messages[1].id = "b" /\ resp.messages[2].id = "a"
    /\ resp.body.results[1].status = "too_short"
    /\ resp.body.results[2].status # "too_short"

Levels == {"safe", "low", "medium", "high", "critical"}

(* The entries of results that satisfy Test, counted one by one *)
HowMany(results, Test(_)) == Len(SelectSeq(results, Test))

RECURSIVE SumOver(_, _)
SumOver(f, S) ==
    IF S = {} THEN 0
    ELSE LET l == CHOOSE x \in S : TRUE IN f[l] + SumOver(f, S \ {l})

(* C16: in every batch result each summary count is the number of entries  *)
(* with that risk level, and the five counts plus the number of error      *)
(* entries add up to the number of input items.                            *)
C16_SummaryCountsEntries ==
    BulkDone =>
        /\ DOMAIN resp.body.summary = Levels
        /\ \A l \in Levels :
              resp.body.summary[l] =
                  HowMany(resp.body.results, LAMBDA e : e.risk_level = l)
        /\ SumOver(resp.body.summary, Levels)
              + HowMany(resp.body.results, LAMBDA e : e.status = "error")
              = Len(resp.messages)

(* A batch with an error entry beside a too-short one *)
C16_Witness ==
    /\ BulkDone
    /\ \E i, j \in DOMAIN resp.body.results :
          /\ resp.body.results[i].status = "error"
          /\ resp.body.results[j].status = "too_short"
    /\ resp.body.summary["safe"] = 1

(* C17: a text of fewer than 3 characters gets the risk level "low" and    *)
(* the classification "too_short", from /scan and from /scan/bulk alike.   *)
C17_TooShortIsLow ==
    /\ resp.kind = "scan" /\ resp.chars < MIN_LENGTH =>
          /\ resp.body.risk_level = "low"
          /\ resp.body.classification = "too_short"
    /\ BulkDone =>
          \A i \in DOMAIN resp.messages :
              resp.messages[i].text.len < MIN_LENGTH =>
                  /\ resp.body.results[i].risk_level = "low"
                  /\ resp.body.results[i].classification = "too_short"

(* C18: a request whose texts are all shorter than 3 characters calls no   *)
(* classifier and starts no load: its handler never waits for a worker,    *)
(* on /scan and on /scan/bulk.                                             *)
C18_TooShortStartsNoLoad ==
    /\ resp.kind = "scan" /\ resp.chars < MIN_LENGTH =>
          ~resp.waited /\ ~resp.body.predicted
    /\ ( /\ BulkDone
         /\ resp.messages # <<>>
         /\ \A i \in DOMAIN resp.messages : resp.messages[i].text.len < MIN_LENGTH )
       => ~resp.waited /\ resp.body.score_calls = 0

(* What /scan returns for a final score x in the table state c *)
SingleLabels(c, x) ==
    IF c.initialized /\ c.feature_extractor /\ c.risk_scorer # 0
    THEN ScanLevel(x) ELSE FallbackLevel(x)

(* C19: for the same final score in the same state of the table, /scan     *)
(* and /scan/bulk give the same risk level and the same classification.    *)
C19_SameLabelsOnBothPaths ==
    BulkDone =>
        \A i \in DOMAIN resp.body.results :
            resp.body.results[i].status = "scored" =>
                /\ resp.body.results[i].risk_level =
                      SingleLabels(AI_COMPONENTS, resp.body.results[i].exact).risk_level
                /\ resp.body.results[i].classification =
                      SingleLabels(AI_COMPONENTS, resp.body.results[i].exact).classification

(* The lookup of the specification *)
LabelOf ==
    [critical |-> "scam", high |-> "phishing", medium |-> "suspicious",
     low |-> "questionable", safe |-> "legitimate"]

(* C20: on every path the classification of a scored result is the fixed   *)
(* lookup of its risk level: critical -> scam, high -> phishing,           *)
(* medium -> suspicious, low -> questionable, safe -> legitimate.          *)
C20_LabelFollowsLevel ==
    /\ resp.kind = "scan" /\ resp.body.status = "scored" =>
          resp.body.classification = LabelOf[resp.body.risk_level]
    /\ BulkDone =>
          \A i \in DOMAIN resp.body.results :
              resp.body.results[i].status = "scored" =>
                  resp.body.results[i].classification =
                      LabelOf[resp.body.results[i].risk_level]

(* C21: when a classifier prediction (p, c) went into a /scan result, the  *)
(* final score is 0.7 * p + 0.3 * ruleScore clamped to [0, 1], and the     *)
(* confidence of the result is c.                                          *)
C21_EnsembleAndConfidence ==
    resp.kind = "scan" /\ resp.body.predicted =>
        LET a == resp.body.analysis
            tenfold == 7 * a.bert_score + 3 * a.rule_score
        IN  /\ tenfold < 0 => resp.body.exact = 0
            /\ tenfold > 10 * ONE => resp.body.exact = ONE
            /\ 0 <= tenfold /\ tenfold <= 10 * ONE => 10 * resp.body.exact = tenfold
            /\ resp.body.risk_score = Round3(resp.body.exact)
            /\ resp.body.confidence = a.bert_confidence

(* A prediction of (0.3, 0.7) was combined with a positive rule score *)
C21_Witness ==
    /\ resp.kind = "scan" /\ resp.body.predicted
    /\ resp.body.analysis.bert_score = 30000
    /\ resp.body.analysis.rule_score > 0
    /\ resp.body.confidence = 70000

(* C22: the rule score is within [0, 1] for every feature vector, also     *)
(* when only the protective features sender_is_email and sentence_count    *)
(* are present.                                                            *)
C22_RuleScoreInUnitRange ==
    resp.kind = "scan" /\ resp.body.predicted =>
        InUnitRange(resp.body.analysis.rule_score)

(* The keyword categories a text hits *)
Hits(text, category) == Count(text, scam_keywords[category]) > 0

(* C23: with no classifier installed, every message that hits a money      *)
(* keyword, an urgency keyword and an action keyword gets the risk level   *)
(* high or critical from /scan, and a risk score of at least 0.6.          *)
C23_FallbackFlagsPrizeScam ==
    ( /\ resp.kind = "scan" /\ resp.chars >= MIN_LENGTH
      /\ ClassifierUnavailable
      /\ Hits(resp.messages[1].text, "money")
      /\ Hits(resp.messages[1].text, "urgency")
      /\ Hits(resp.messages[1].text, "action") )
    => /\ resp.body.risk_level \in {"high", "critical"}
       /\ resp.body.risk_score >= 60000

(* C24: extract never raises, whatever the sender and the metadata: no     *)
(* /scan request ends in the handler of an exception of extract; and with  *)
(* metadata that holds no hour the night-time flag is false.               *)
C24_ExtractNeverRaises ==
    /\ resp.kind = "scan" /\ resp.chars >= MIN_LENGTH /\ AI_COMPONENTS.feature_extractor
          => resp.body.caught # "extract"
    /\ \A md \in Metadatas :
          md.keys # {} /\ "hour" \notin md.keys =>
              ~_extract_metadata_features(md).is_night_time.b

(* C25: while the latest load attempt is one that failed, /health reports  *)
(* ai = "fallback_mode" and /ai-status reports mode = "fallback".          *)
C25_StatusShowsDegraded ==
    hist.outcome = "failed" =>
        /\ resp.kind = "health" => resp.body.ai = "fallback_mode"
        /\ resp.kind = "ai_status" => resp.body.mode = "fallback"

(* C26: a batch that is rejected for its size starts no load attempt: the  *)
(* handler answers without having waited for a worker, and the table is    *)
(* as it was before the request.                                           *)
C26_RejectedBatchStartsNoLoad ==
    resp.kind = "bulk" /\ resp.body.status = "http_400" =>
        ~resp.waited /\ ev.op = "whole"

(* C27: when a worker whose wait timed out ends with the components built, *)
(* its result is discarded: the table stays as it is, and neither the late *)
(* classifier nor the late scorer is installed.                            *)
C27_LateResultDiscarded ==
    [][ ev'.op = "late" /\ ev' # ev =>
            /\ AI_COMPONENTS' = AI_COMPONENTS
            /\ AI_COMPONENTS'.risk_scorer # ev'.id
            /\ AI_COMPONENTS'.bert_classifier # ev'.id ]_vars

(* A late worker built its components after the timeout had marked the     *)
(* load as failed                                                          *)
C27_Witness ==
    /\ ev.op = "late" /\ ev.built
    /\ hist.outcome = "failed"
    /\ AI_COMPONENTS.initialization_failed
    /\ ClassifierUnavailable

(* C28: every authenticated /scan request that returns a scan result     *)
(* (too short, rule-based or scored by the components) appends exactly    *)
(* one usage record for its key, and a request without a valid key        *)
(* appends none.                                                          *)
ScanResultSent ==
    /\ resp'.kind = "scan"
    /\ resp' # resp
    /\ resp'.body.status \in {"too_short", "scored"}

C28_OneUsageRecordPerScan ==
    [][ ScanResultSent =>
            IF resp'.api_key # NoKey
            THEN usage_logs' = [usage_logs EXCEPT ![resp'.api_key.key_id] = @ + 1]
            ELSE usage_logs' = usage_logs ]_vars

(* C29: the api_key string that generate_api_key returns is accepted by   *)
(* validate_api_key while the key is active and unexpired, and yields the *)
(* record stored for it.                                                  *)
C29_IssuedKeyValidates ==
    resp.kind = "create_key" =>
        LET found == validate_api_key(api_keys, resp.body.api_key, now)
        IN  /\ found # NoKey
            /\ found.key_id = resp.body.key_id

(* C30: a request made with a key is allowed only while fewer than        *)
(* daily_limit and fewer than monthly_limit requests have been logged for *)
(* the key; at the limit it is rejected with 429.                         *)
C30_RateLimitEnforced ==
    [][ resp'.kind = "scan" /\ resp' # resp /\ resp'.api_key # NoKey =>
            /\ usage_logs[resp'.api_key.key_id] < resp'.api_key.daily_limit
            /\ usage_logs[resp'.api_key.key_id] < resp'.api_key.monthly_limit ]_vars

====
